---- MODULE Spec2Model ----
(***************************************************************************)
(* Model of the two demo HTTP services of minikube-apm-nginx-sandbox:      *)
(*   golang-api/main.go   (gorilla/mux router traced by dd-trace-go)       *)
(*   nodejs-api/src/app.js (express application)                           *)
(* One behaviour of the model is one run of one of the two processes; the  *)
(* process is chosen in Init (svc).  Requests occupy slots; a slot is      *)
(* reused once its response has been sent.                                 *)
(*                                                                         *)
(* Numbers: a drawn outcome in [0,1) is held in tenths (0..9), so that the *)
(* thresholds 0.5 and 0.8 of the code are the integers 5 and 8.  Clock     *)
(* values (time.Now().UnixNano(), new Date()) are small naturals.          *)
(***************************************************************************)
EXTENDS Integers, Sequences, FiniteSets, TLC

VARIABLES svc, proc, clock, rng, req, logSink

vars == <<svc, proc, clock, rng, req, logSink>>

\* ------------------------------------------------------------------ bounds
MaxClock == 2

\* request slots: two, for every pair of overlapping requests
Reqs == {1, 2}

\* ------------------------------------------------------- program constants
\* thresholds of the outcome draw, in tenths
SuccessBelow == 5
ClientBelow == 8
\* number of scenarios in each error class
ClassSize == 3

StatusOK == 200
StatusBadRequest == 400
StatusInternalServerError == 500
StatusNotFound == 404

\* the static catalog; the code's index i is errorScenarios[i + 1] here
errorScenarios ==
  << [StatusCode |-> StatusBadRequest, ErrorCode |-> "INVALID_REQUEST",
      Message |-> "Invalid request format",
      Reason |-> "Missing required parameter 'user_id'"],
     [StatusCode |-> StatusBadRequest, ErrorCode |-> "VALIDATION_ERROR",
      Message |-> "Request validation failed",
      Reason |-> "Email format is invalid"],
     [StatusCode |-> StatusBadRequest, ErrorCode |-> "MISSING_AUTH",
      Message |-> "Authentication required",
      Reason |-> "Authorization header is missing or malformed"],
     [StatusCode |-> StatusInternalServerError, ErrorCode |-> "DATABASE_ERROR",
      Message |-> "Internal database error",
      Reason |-> "Connection to user database failed"],
     [StatusCode |-> StatusInternalServerError, ErrorCode |-> "SERVICE_UNAVAILABLE",
      Message |-> "External service error",
      Reason |-> "Payment service is temporarily unavailable"],
     [StatusCode |-> StatusInternalServerError, ErrorCode |-> "TIMEOUT_ERROR",
      Message |-> "Request timeout",
      Reason |-> "Upstream service did not respond within 30 seconds"] >>

\* ------------------------------------------------------ the random source
\* The process-wide pseudo-random source (math/rand's global source,
\* Math.random): a state, a deterministic successor, and outputs that are
\* functions of the state.  The generator is a small congruential one.
RngStates == 0..29

RngNext(s) == (13 * s + 5) % 30

\* rand.Seed(x): the state becomes a function of the seed only
RngSeed(x) == x % 30

\* rand.Float64() / Math.random(): advance, output in tenths (0..9)
Float64State(s) == RngNext(s)
Float64Value(s) == RngNext(s) % 10

\* rand.Intn(n) / Math.floor(Math.random() * n): advance, output in 0..n-1
IntnState(s) == RngNext(s)
IntnValue(s, n) == RngNext(s) % n

\* --------------------------------------------------------------- requests
Methods == {"GET", "POST"}
Paths == {"/", "/health"}

\* values of the x-datadog-trace-id / x-datadog-parent-id headers; 0 = absent
InTrace == 7
InParent == 8
TraceHeaderValues == {0, InTrace}
ParentHeaderValues == {0, InParent}

NoSpan == [traceId |-> 0, parentId |-> 0, spanId |-> 0, finished |-> FALSE,
           tags |-> <<>>]
NoBody == [none |-> TRUE]

IdleReq ==
  [pc |-> "idle", method |-> "GET", path |-> "/", bodyOk |-> TRUE,
   hTrace |-> 0, hParent |-> 0, handler |-> "none", logFailed |-> FALSE,
   rspan |-> NoSpan, span |-> NoSpan,
   requestID |-> -1, outcome |-> -1, draws |-> 0, pick |-> -1,
   scenario |-> -1,
   timestamp |-> -1, response |-> NoBody, respStatus |-> 0,
   ctype |-> "", sentCtype |-> "", status |-> 0, statusWrites |-> 0,
   serialized |-> FALSE, body |-> NoBody, bodyWrites |-> 0]

\* ids the tracer hands out for the spans of the request in slot r
RouterSpanId(r) == 10 * r + 1
HandlerSpanId(r) == 10 * r + 2
NewTraceId(r) == 10 * r + 3

InFlight(r) == req[r].pc \notin {"idle", "done"}

\* ------------------------------------------------------------ the process
\* logger.go 15-30: NewLogger writes to stdout and the file when the file
\* opens, and leaves logrus's default output (stderr) otherwise
NewLogger(fileOpens) == IF fileOpens THEN "stdout+file" ELSE "stderr"

\* An environment variable is unset or set to a string, which may be empty.
Unset == [set |-> FALSE, value |-> ""]
SetTo(v) == [set |-> TRUE, value |-> v]
EnvValues == {Unset, SetTo(""), SetTo("0"), SetTo("custom")}
Envs == [DD_SERVICE : EnvValues, DD_ENV : EnvValues, DD_VERSION : EnvValues]
UnsetEnv == [DD_SERVICE |-> Unset, DD_ENV |-> Unset, DD_VERSION |-> Unset]

\* process.env.X || d: process.env.X is undefined when X is unset, and
\* undefined and the empty string are falsy
OrDefault_whenUnset(v, d) == IF v.set THEN v.value ELSE d
OrDefault(v, d) == IF v.set /\ v.value # "" THEN v.value ELSE d

\* part_000 3-8: the options the entry file passes to tracer.init
NoOptions == [none |-> TRUE]
EntryOptions(env) ==
  [logInjection |-> TRUE,
   service |-> OrDefault(env.DD_SERVICE, "nodejs-api"),
   env |-> OrDefault(env.DD_ENV, "dev"),
   version |-> OrDefault(env.DD_VERSION, "0.1.0")]

\* The process: its phase, the modules evaluated so far (Node.js), the calls
\* of tracer.Start / tracer.init and the options of the one that took effect,
\* the calls of tracer.Stop, whether a deferred tracer.Stop is registered,
\* where the logger writes, the exit code, the catalog of error scenarios
\* the handlers read (a package-level slice in Go, a module-level array in
\* Node.js), the environment, and the options the Node.js entry file passed
\* to tracer.init.
BootProc ==
  [phase |-> "boot", loaded |-> <<>>, tracerInits |-> 0, tracerOptions |-> "none",
   tracerStops |-> 0, deferredStop |-> FALSE, logOut |-> "none",
   started |-> FALSE, exitCode |-> -1, catalog |-> <<>>,
   env |-> UnsetEnv, entryOptions |-> NoOptions]

\* the Go process once main.go 16 and 188-196 have run and the server listens
GoServing(fileOpens) ==
  [BootProc EXCEPT !.phase = "serving", !.tracerInits = 1,
                   !.tracerOptions = "default", !.deferredStop = TRUE,
                   !.logOut = NewLogger(fileOpens), !.started = TRUE,
                   !.catalog = errorScenarios]

\* the Node.js process once the entry file has run and the server listens:
\* the modules in evaluation order, tracer.init called by app.js 5 and then by
\* the entry file, the first call taking effect
NodeServing ==
  [BootProc EXCEPT !.phase = "serving",
                   !.loaded = <<"dd-trace", "winston", "logger.js", "express",
                                "app.js", "server.js">>,
                   !.tracerInits = 2, !.tracerOptions = "app.js",
                   !.logOut = "console", !.started = TRUE,
                   !.catalog = errorScenarios,
                   !.entryOptions = EntryOptions(UnsetEnv)]

Init ==
  /\ svc \in {"go", "node"}
  /\ proc = IF svc = "go" THEN GoServing(TRUE) ELSE NodeServing
  /\ clock = 0
  /\ rng \in RngStates
  /\ req = [r \in Reqs |-> IdleReq]
  /\ logSink = <<>>

\* time passes
Tick ==
  /\ clock < MaxClock
  /\ clock' = clock + 1
  /\ UNCHANGED <<svc, proc, rng, req, logSink>>

\* A request is accepted by the server and occupies slot r.  Here the client
\* sends one request at a time: method, path, body and trace headers are
\* arbitrary.  (The Node.js process runs the callbacks of one request to
\* completion before those of the next.)
Accept(r, m, p, b, ht, hp) ==
  req' = [req EXCEPT ![r] =
            [IdleReq EXCEPT !.pc = IF svc = "go" THEN "g_route" ELSE "n_json",
                            !.method = m, !.path = p, !.bodyOk = b,
                            !.hTrace = ht, !.hParent = hp]]

Arrive(r, m, p, b, ht, hp) ==
  /\ \A q \in Reqs : req[q].pc = "idle"
  /\ Accept(r, m, p, b, ht, hp)
  /\ UNCHANGED <<svc, proc, clock, rng, logSink>>

\* The Go server runs one goroutine per request: a request is accepted while
\* another is being handled.  Concurrent clients send plain GET requests.
ArriveConcurrent(r, p) ==
  /\ svc = "go"
  /\ req[r].pc = "idle"
  /\ Accept(r, "GET", p, TRUE, 0, 0)
  /\ UNCHANGED <<svc, proc, clock, rng, logSink>>

\* the response has been sent and the per-request values are discarded; the
\* log collector has consumed the lines of the request
LinesOf(r) == SelectSeq(logSink, LAMBDA l : l.req = r)
Discard(r) ==
  /\ req[r].pc = "done"
  /\ req' = [req EXCEPT ![r] = IdleReq]
  /\ logSink' = SelectSeq(logSink, LAMBDA l : l.req # r)
  /\ UNCHANGED <<svc, proc, clock, rng>>

\* ================================================================ Go service

\* muxtrace router: extracts the inbound trace context (present when both the
\* trace id and the parent id are), starts the router span and dispatches on
\* the path; both routes are registered for every method.
HasInboundContext(q) == q.hTrace # 0 /\ q.hParent # 0

RouterSpan(r, q) ==
  IF HasInboundContext(q)
    THEN [traceId |-> q.hTrace, parentId |-> q.hParent,
          spanId |-> RouterSpanId(r), finished |-> FALSE, tags |-> <<>>]
    ELSE [traceId |-> NewTraceId(r), parentId |-> 0,
          spanId |-> RouterSpanId(r), finished |-> FALSE, tags |-> <<>>]

\* faulty variant: the route "/" matching every path
GoRoute_prefix(r) ==
  /\ svc = "go"
  /\ req[r].pc = "g_route"
  /\ req' = [req EXCEPT ![r].rspan = RouterSpan(r, req[r]),
                        ![r].handler = "root",
                        ![r].pc = "g_start"]
  /\ UNCHANGED <<svc, proc, clock, rng, logSink>>

GoRoute(r) ==
  /\ svc = "go"
  /\ req[r].pc = "g_route"
  /\ req' = [req EXCEPT ![r].rspan = RouterSpan(r, req[r]),
                        ![r].handler = IF req[r].path = "/" THEN "root"
                                       ELSE "health",
                        ![r].pc = IF req[r].path = "/" THEN "g_start"
                                  ELSE "h_ctype"]
  /\ UNCHANGED <<svc, proc, clock, rng, logSink>>

\* faulty variant: tracer.StartSpan without the request context
ChildSpan_root(r, parent) ==
  [traceId |-> NewTraceId(r) + 1, parentId |-> 0,
   spanId |-> HandlerSpanId(r), finished |-> FALSE, tags |-> <<>>]

\* tracer.StartSpanFromContext: a child of the span in the request context
ChildSpan(r, parent) ==
  [traceId |-> parent.traceId, parentId |-> parent.spanId,
   spanId |-> HandlerSpanId(r), finished |-> FALSE, tags |-> <<>>]

SetTag(span, k, v) == [span EXCEPT !.tags = (k :> v) @@ span.tags]

\* faulty variant: span.Finish() called where the span starts, not deferred
GoStart_finishNow(r) ==
  /\ svc = "go"
  /\ req[r].pc = "g_start"
  /\ LET q == req[r]
         s0 == ChildSpan(r, q.rspan)
         s1 == SetTag(s0, "request.id", clock)
         s2 == SetTag(s1, "http.method", q.method)
         s3 == SetTag(s2, "http.url", q.path)
     IN req' = [req EXCEPT ![r].span = [s3 EXCEPT !.finished = TRUE],
                           ![r].requestID = clock,
                           ![r].pc = "g_ctype"]
  /\ UNCHANGED <<svc, proc, clock, rng, logSink>>

\* main.go 53-81: span, request id, first tags, logger entry
GoStart(r) ==
  /\ svc = "go"
  /\ req[r].pc = "g_start"
  /\ LET q == req[r]
         s0 == ChildSpan(r, q.rspan)
         s1 == SetTag(s0, "request.id", clock)
         s2 == SetTag(s1, "http.method", q.method)
         s3 == SetTag(s2, "http.url", q.path)
     IN req' = [req EXCEPT ![r].span = s3, ![r].requestID = clock,
                           ![r].pc = "g_ctype"]
  /\ UNCHANGED <<svc, proc, clock, rng, logSink>>

\* main.go 84
GoSetContentType(r) ==
  /\ svc = "go"
  /\ req[r].pc = "g_ctype"
  /\ req' = [req EXCEPT ![r].ctype = "application/json", ![r].pc = "g_seed"]
  /\ UNCHANGED <<svc, proc, clock, rng, logSink>>

\* main.go 87: rand.Seed(time.Now().UnixNano())
GoSeed(r) ==
  /\ svc = "go"
  /\ req[r].pc = "g_seed"
  /\ rng' = RngSeed(clock)
  /\ req' = [req EXCEPT ![r].pc = "g_draw"]
  /\ UNCHANGED <<svc, proc, clock, logSink>>

\* main.go 88
GoDraw(r) ==
  /\ svc = "go"
  /\ req[r].pc = "g_draw"
  /\ rng' = Float64State(rng)
  /\ req' = [req EXCEPT ![r].outcome = Float64Value(rng),
                        ![r].draws = @ + 1, ![r].pc = "g_ts"]
  /\ UNCHANGED <<svc, proc, clock, logSink>>

\* main.go 90
GoTimestamp(r) ==
  /\ svc = "go"
  /\ req[r].pc = "g_ts"
  /\ req' = [req EXCEPT ![r].timestamp = clock, ![r].pc = "g_branch"]
  /\ UNCHANGED <<svc, proc, clock, rng, logSink>>

\* fmt.Sprintf("%d", code) on the status codes in use
Itoa(n) ==
  CASE n = 200 -> "200" [] n = 400 -> "400" [] n = 404 -> "404"
    [] n = 500 -> "500" [] OTHER -> "?"

\* outcome classes of main.go 92 / 112 / 142 (app.js 54 / 65 / 79)
\* faulty variant: the boundary 0.5 counted as a success
IsSuccess_inclusive(outcome) == outcome <= SuccessBelow
IsSuccess(outcome) == outcome < SuccessBelow
IsClientError(outcome) == ~IsSuccess(outcome) /\ outcome < ClientBelow
IsServerError(outcome) == ~IsSuccess(outcome) /\ ~IsClientError(outcome)

\* catalog index (0-based, as in the code) read by an error branch
\* faulty variant: the server branch reads the catalog without its offset
ScenarioIndex_noOffset(outcome, k) == k
ScenarioIndex(outcome, k) == IF IsClientError(outcome) THEN k ELSE 3 + k
Scenario(i) == proc.catalog[i + 1]

\* faulty variant: the request id of the body made anew from the clock value
\* read for the timestamp
GoSuccessResponse_tsId(ts, rid) ==
  [status |-> "success", message |-> "Request processed successfully",
   timestamp |-> ts, request_id |-> ts]
GoSuccessResponse(ts, rid) ==
  [status |-> "success", message |-> "Request processed successfully",
   timestamp |-> ts, request_id |-> rid]

\* faulty variant: ErrorCode and Reason swapped between `error` and `code`
GoErrorResponse_swapped(sc, ts, rid) ==
  [error |-> sc.Reason, message |-> sc.Message, code |-> sc.ErrorCode,
   timestamp |-> ts, request_id |-> rid]
GoErrorResponse(sc, ts, rid) ==
  [error |-> sc.ErrorCode, message |-> sc.Message, code |-> sc.Reason,
   timestamp |-> ts, request_id |-> rid]

ErrorType(outcome) == IF IsClientError(outcome) THEN "client_error"
                      ELSE "server_error"

\* faulty variant: the status tags of the error branches written as 500
GoErrorTags_always500(span, sc, outcome) ==
  LET t1 == SetTag(span, "http.status_code", StatusInternalServerError)
      t2 == SetTag(t1, "http.status_code", Itoa(StatusInternalServerError))
      t3 == SetTag(t2, "error", TRUE)
      t4 == SetTag(t3, "error.type", ErrorType(outcome))
      t5 == SetTag(t4, "error.code", sc.ErrorCode)
  IN SetTag(t5, "error.message", sc.Message)
GoErrorTags(span, sc, outcome) ==
  LET t1 == SetTag(span, "http.status_code", sc.StatusCode)
      t2 == SetTag(t1, "http.status_code", Itoa(sc.StatusCode))
      t3 == SetTag(t2, "error", TRUE)
      t4 == SetTag(t3, "error.type", ErrorType(outcome))
      t5 == SetTag(t4, "error.code", sc.ErrorCode)
  IN SetTag(t5, "error.message", sc.Message)

GoSuccessTags(span) ==
  SetTag(SetTag(span, "http.status_code", StatusOK),
         "http.status_code", Itoa(StatusOK))

\* faulty variant: the outcome kept in a variable shared by all handlers, so
\* that the branch reads the value the source produced last
GoBranch_sharedOutcome(r) ==
  /\ svc = "go"
  /\ req[r].pc = "g_branch"
  /\ LET q == req[r] IN
     IF IsSuccess(rng % 10)
       THEN /\ req' = [req EXCEPT
                         ![r].span = GoSuccessTags(q.span),
                         ![r].response = GoSuccessResponse(q.timestamp, q.requestID),
                         ![r].respStatus = StatusOK,
                         ![r].pc = "g_log"]
            /\ rng' = rng
       ELSE LET k == IntnValue(rng, ClassSize)
                i == ScenarioIndex(rng % 10, k)
                sc == Scenario(i)
            IN /\ req' = [req EXCEPT
                            ![r].pick = k,
                            ![r].scenario = i,
                            ![r].draws = @ + 1,
                            ![r].span = GoErrorTags(q.span, sc, rng % 10),
                            ![r].response = GoErrorResponse(sc, q.timestamp, q.requestID),
                            ![r].respStatus = sc.StatusCode,
                            ![r].pc = "g_log"]
               /\ rng' = IntnState(rng)
  /\ UNCHANGED <<svc, proc, clock, logSink>>

\* main.go 92-102 (success), 112-129 (client error), 142-159 (server error):
\* the branch on the outcome, the scenario draw, the span tags, the response
GoBranch(r) ==
  /\ svc = "go"
  /\ req[r].pc = "g_branch"
  /\ LET q == req[r] IN
     IF IsSuccess(q.outcome)
       THEN /\ req' = [req EXCEPT
                         ![r].span = GoSuccessTags(q.span),
                         ![r].response = GoSuccessResponse(q.timestamp, q.requestID),
                         ![r].respStatus = StatusOK,
                         ![r].pc = "g_log"]
            /\ rng' = rng
       ELSE LET k == IntnValue(rng, ClassSize)
                i == ScenarioIndex(q.outcome, k)
                sc == Scenario(i)
            IN /\ req' = [req EXCEPT
                            ![r].pick = k,
                            ![r].scenario = i,
                            ![r].draws = @ + 1,
                            ![r].span = GoErrorTags(q.span, sc, q.outcome),
                            ![r].response = GoErrorResponse(sc, q.timestamp, q.requestID),
                            ![r].respStatus = sc.StatusCode,
                            ![r].pc = "g_log"]
               /\ rng' = IntnState(rng)
  /\ UNCHANGED <<svc, proc, clock, logSink>>

\* fields of the logger entry built at main.go 68-81; DDContextLogHook adds
\* dd.trace_id / dd.span_id from the span in the context.  (The *_hex fields
\* carry the *_dec values in another notation and are left out.)
GoEntryFields(q) ==
  [url |-> q.path, method |-> q.method, remote_addr |-> "remote",
   request_id |-> q.requestID, user_agent |-> "agent",
   trace_id_dec |-> q.span.traceId, span_id_dec |-> q.span.spanId,
   dd_trace_id |-> q.span.traceId, dd_span_id |-> q.span.spanId]

GoLogLine(r, q) ==
  IF IsSuccess(q.outcome)
    THEN [req |-> r, level |-> "info", msg |-> "Request processed successfully",
          fields |-> [status_code |-> StatusOK, response |-> "success"]
                       @@ GoEntryFields(q)]
    ELSE LET sc == Scenario(q.scenario) IN
         [req |-> r, level |-> "error",
          msg |-> IF IsClientError(q.outcome) THEN "Client error occurred"
                  ELSE "Server error occurred",
          fields |-> [status_code |-> sc.StatusCode, error_code |-> sc.ErrorCode,
                      error_message |-> sc.Message, error_reason |-> sc.Reason,
                      error_type |-> ErrorType(q.outcome)]
                       @@ GoEntryFields(q)]

\* main.go 104-107 / 131-137 / 161-167
GoLog(r) ==
  /\ svc = "go"
  /\ req[r].pc = "g_log"
  /\ logSink' = Append(logSink, GoLogLine(r, req[r]) @@ [out |-> proc.logOut])
  /\ req' = [req EXCEPT ![r].pc = "g_status"]
  /\ UNCHANGED <<svc, proc, clock, rng>>

\* faulty variant: a handler that gives up when the log line cannot be written
GoLogFault_abort(r) ==
  /\ svc = "go"
  /\ req[r].pc = "g_log"
  /\ req' = [req EXCEPT ![r].logFailed = TRUE, ![r].pc = "g_finish"]
  /\ UNCHANGED <<svc, proc, clock, rng, logSink>>

\* main.go 104-107 / 131-137 / 161-167 when the write to the logger's output
\* fails: logrus reports the failure on stderr and returns, no line reaches
\* the sink, the handler goes on
GoLogFault(r) ==
  /\ svc = "go"
  /\ req[r].pc = "g_log"
  /\ req' = [req EXCEPT ![r].logFailed = TRUE, ![r].pc = "g_status"]
  /\ UNCHANGED <<svc, proc, clock, rng, logSink>>

\* main.go 109 / 139 / 169: the status line goes out with the headers set so far
GoWriteHeader(r) ==
  /\ svc = "go"
  /\ req[r].pc = "g_status"
  /\ req' = [req EXCEPT ![r].status = req[r].respStatus,
                        ![r].statusWrites = @ + 1,
                        ![r].sentCtype = req[r].ctype,
                        ![r].pc = "g_body"]
  /\ UNCHANGED <<svc, proc, clock, rng, logSink>>

\* faulty variant: a branch that never encodes its response
GoEncode_skip(r) ==
  /\ svc = "go"
  /\ req[r].pc = "g_body"
  /\ req' = [req EXCEPT ![r].pc = "g_finish"]
  /\ UNCHANGED <<svc, proc, clock, rng, logSink>>

\* main.go 110 / 140 / 170: Encode marshals the response and writes it
GoEncode(r) ==
  /\ svc = "go"
  /\ req[r].pc = "g_body"
  /\ req' = [req EXCEPT ![r].serialized = TRUE,
                        ![r].body = req[r].response,
                        ![r].bodyWrites = @ + 1,
                        ![r].pc = "g_finish"]
  /\ UNCHANGED <<svc, proc, clock, rng, logSink>>

\* main.go 55 (deferred span.Finish); the router then finishes its own span
GoFinish(r) ==
  /\ svc = "go"
  /\ req[r].pc = "g_finish"
  /\ req' = [req EXCEPT ![r].span.finished = TRUE,
                        ![r].rspan.finished = TRUE,
                        ![r].pc = "done"]
  /\ UNCHANGED <<svc, proc, clock, rng, logSink>>

\* ---- healthHandler, main.go 174-185
GoHealthResponse(ts) ==
  [status |-> "healthy", message |-> "Service is healthy", timestamp |-> ts]

GoHealthSetContentType(r) ==
  /\ svc = "go"
  /\ req[r].pc = "h_ctype"
  /\ req' = [req EXCEPT ![r].ctype = "application/json", ![r].pc = "h_status"]
  /\ UNCHANGED <<svc, proc, clock, rng, logSink>>

GoHealthWriteHeader(r) ==
  /\ svc = "go"
  /\ req[r].pc = "h_status"
  /\ req' = [req EXCEPT ![r].status = StatusOK,
                        ![r].statusWrites = @ + 1,
                        ![r].sentCtype = req[r].ctype,
                        ![r].pc = "h_build"]
  /\ UNCHANGED <<svc, proc, clock, rng, logSink>>

\* faulty variant: the health handler reseeding the source as the root handler does
GoHealthBuild_reseed(r) ==
  /\ svc = "go"
  /\ req[r].pc = "h_build"
  /\ rng' = RngSeed(clock)
  /\ req' = [req EXCEPT ![r].timestamp = clock,
                        ![r].response = GoHealthResponse(clock),
                        ![r].respStatus = StatusOK,
                        ![r].pc = "h_body"]
  /\ UNCHANGED <<svc, proc, clock, logSink>>

GoHealthBuild(r) ==
  /\ svc = "go"
  /\ req[r].pc = "h_build"
  /\ req' = [req EXCEPT ![r].timestamp = clock,
                        ![r].response = GoHealthResponse(clock),
                        ![r].respStatus = StatusOK,
                        ![r].pc = "h_body"]
  /\ UNCHANGED <<svc, proc, clock, rng, logSink>>

GoHealthEncode(r) ==
  /\ svc = "go"
  /\ req[r].pc = "h_body"
  /\ req' = [req EXCEPT ![r].serialized = TRUE,
                        ![r].body = req[r].response,
                        ![r].bodyWrites = @ + 1,
                        ![r].rspan.finished = TRUE,
                        ![r].pc = "done"]
  /\ UNCHANGED <<svc, proc, clock, rng, logSink>>

\* =========================================================== Node.js service

\* res.status(code).json(obj): serialises obj, sets Content-Type when the
\* handler has not, and sends status line, headers and body together
ResStatusJson(q, code, obj) ==
  LET ct == IF q.ctype = "" THEN "application/json" ELSE q.ctype IN
  [q EXCEPT !.serialized = TRUE, !.ctype = ct, !.sentCtype = ct,
            !.status = code, !.statusWrites = @ + 1,
            !.body = obj, !.bodyWrites = @ + 1]

\* app.js 14: express.json(); a body it cannot parse is passed on as an error,
\* which skips every non-error middleware and route
NodeJsonMiddleware(r) ==
  /\ svc = "node"
  /\ req[r].pc = "n_json"
  /\ req' = [req EXCEPT ![r].pc = IF req[r].bodyOk THEN "n_ddmw" ELSE "n_errlog",
                        ![r].handler = IF req[r].bodyOk THEN "none" ELSE "error"]
  /\ UNCHANGED <<svc, proc, clock, rng, logSink>>

\* faulty variant: the parent id looked at only when the trace id is present
DatadogHeaders_traceOnly(q) ==
  IF q.hTrace # 0
    THEN [X_Datadog_Trace_Id |-> q.hTrace]
           @@ (IF q.hParent # 0 THEN [X_Datadog_Parent_Id |-> q.hParent] ELSE <<>>)
    ELSE <<>>
\* app.js 18-24: the headers that are present (a missing or empty header is
\* falsy)
DatadogHeaders(q) ==
  (IF q.hTrace # 0 THEN [X_Datadog_Trace_Id |-> q.hTrace] ELSE <<>>)
    @@ (IF q.hParent # 0 THEN [X_Datadog_Parent_Id |-> q.hParent] ELSE <<>>)

\* app.js 17-31
NodeDatadogMiddleware(r) ==
  /\ svc = "node"
  /\ req[r].pc = "n_ddmw"
  /\ LET h == DatadogHeaders(req[r]) IN
       logSink' = IF DOMAIN h # {}
                    THEN Append(logSink, [req |-> r, level |-> "info",
                                          msg |-> "Incoming Datadog headers",
                                          fields |-> h])
                    ELSE logSink
  /\ req' = [req EXCEPT ![r].pc = "n_route"]
  /\ UNCHANGED <<svc, proc, clock, rng>>

\* app.js 45 / 96: both routes are registered with app.get; a request no
\* route matches reaches express's final handler (the error middleware of
\* app.js 109 is skipped, there being no error)
NodeRoute(r) ==
  /\ svc = "node"
  /\ req[r].pc = "n_route"
  /\ req' = [req EXCEPT
               ![r].handler =
                 IF req[r].method = "GET"
                   THEN (IF req[r].path = "/" THEN "root" ELSE "health")
                   ELSE "notfound",
               ![r].pc =
                 IF req[r].method = "GET"
                   THEN (IF req[r].path = "/" THEN "n_ts" ELSE "nh_ctype")
                   ELSE "n_404"]
  /\ UNCHANGED <<svc, proc, clock, rng, logSink>>

\* express's final handler: 404 with an HTML page
NodeNotFound(r) ==
  /\ svc = "node"
  /\ req[r].pc = "n_404"
  /\ req' = [req EXCEPT ![r].ctype = "text/html", ![r].sentCtype = "text/html",
                        ![r].status = StatusNotFound,
                        ![r].statusWrites = @ + 1,
                        ![r].body = [html |-> "Cannot POST"],
                        ![r].bodyWrites = @ + 1,
                        ![r].pc = "done"]
  /\ UNCHANGED <<svc, proc, clock, rng, logSink>>

\* ---- app.get('/'), app.js 45-93
\* app.js 46
NodeTimestamp(r) ==
  /\ svc = "node"
  /\ req[r].pc = "n_ts"
  /\ req' = [req EXCEPT ![r].timestamp = clock, ![r].pc = "n_ctype"]
  /\ UNCHANGED <<svc, proc, clock, rng, logSink>>

\* app.js 49
NodeSetContentType(r) ==
  /\ svc = "node"
  /\ req[r].pc = "n_ctype"
  /\ req' = [req EXCEPT ![r].ctype = "application/json", ![r].pc = "n_draw"]
  /\ UNCHANGED <<svc, proc, clock, rng, logSink>>

\* app.js 52
NodeDraw(r) ==
  /\ svc = "node"
  /\ req[r].pc = "n_draw"
  /\ rng' = Float64State(rng)
  /\ req' = [req EXCEPT ![r].outcome = Float64Value(rng),
                        ![r].draws = @ + 1, ![r].pc = "n_branch"]
  /\ UNCHANGED <<svc, proc, clock, logSink>>

NodeSuccessResponse(ts) ==
  [status |-> "success", message |-> "Request processed successfully",
   timestamp |-> ts]

\* faulty variant: the message taken from the first entry of the catalog
NodeErrorResponse_firstMessage(sc, ts) ==
  [error |-> sc.ErrorCode, message |-> Scenario(0).Message, code |-> sc.Reason,
   timestamp |-> ts]
NodeErrorResponse(sc, ts) ==
  [error |-> sc.ErrorCode, message |-> sc.Message, code |-> sc.Reason,
   timestamp |-> ts]

\* app.js 54-60 / 65-74 / 79-88
NodeBranch(r) ==
  /\ svc = "node"
  /\ req[r].pc = "n_branch"
  /\ LET q == req[r] IN
     IF IsSuccess(q.outcome)
       THEN /\ req' = [req EXCEPT
                         ![r].response = NodeSuccessResponse(q.timestamp),
                         ![r].respStatus = StatusOK,
                         ![r].pc = "n_log"]
            /\ rng' = rng
       ELSE LET k == IntnValue(rng, ClassSize)
                i == ScenarioIndex(q.outcome, k)
                sc == Scenario(i)
            IN /\ req' = [req EXCEPT
                            ![r].pick = k,
                            ![r].scenario = i,
                            ![r].draws = @ + 1,
                            ![r].response = NodeErrorResponse(sc, q.timestamp),
                            ![r].respStatus = sc.StatusCode,
                            ![r].pc = "n_log"]
               /\ rng' = IntnState(rng)
  /\ UNCHANGED <<svc, proc, clock, logSink>>

\* faulty variant: every outcome logged with logger.info
NodeLogLine_infoAlways(r, q) ==
  [req |-> r,
   level |-> "info",
   msg |-> IF IsSuccess(q.outcome) THEN "Request processed successfully"
           ELSE IF IsClientError(q.outcome) THEN "Client error occurred"
           ELSE "Server error occurred",
   fields |-> <<>>]
\* app.js 62 / 76 / 90: the message alone is logged
NodeLogLine(r, q) ==
  [req |-> r,
   level |-> IF IsSuccess(q.outcome) THEN "info" ELSE "error",
   msg |-> IF IsSuccess(q.outcome) THEN "Request processed successfully"
           ELSE IF IsClientError(q.outcome) THEN "Client error occurred"
           ELSE "Server error occurred",
   fields |-> <<>>]

\* app.js 62 / 76 / 90
NodeLog(r) ==
  /\ svc = "node"
  /\ req[r].pc = "n_log"
  /\ logSink' = Append(logSink, NodeLogLine(r, req[r]))
  /\ req' = [req EXCEPT ![r].pc = "n_send"]
  /\ UNCHANGED <<svc, proc, clock, rng>>

\* app.js 63 / 77 / 91
NodeSend(r) ==
  /\ svc = "node"
  /\ req[r].pc = "n_send"
  /\ req' = [req EXCEPT ![r] =
               [ResStatusJson(req[r], req[r].respStatus, req[r].response)
                  EXCEPT !.pc = "done"]]
  /\ UNCHANGED <<svc, proc, clock, rng, logSink>>

\* ---- app.get('/health'), app.js 96-106
NodeHealthSetContentType(r) ==
  /\ svc = "node"
  /\ req[r].pc = "nh_ctype"
  /\ req' = [req EXCEPT ![r].ctype = "application/json", ![r].pc = "nh_build"]
  /\ UNCHANGED <<svc, proc, clock, rng, logSink>>

NodeHealthResponse(ts) ==
  [status |-> "healthy", message |-> "Service is healthy", timestamp |-> ts]

NodeHealthBuild(r) ==
  /\ svc = "node"
  /\ req[r].pc = "nh_build"
  /\ req' = [req EXCEPT ![r].timestamp = clock,
                        ![r].response = NodeHealthResponse(clock),
                        ![r].respStatus = StatusOK,
                        ![r].pc = "nh_send"]
  /\ UNCHANGED <<svc, proc, clock, rng, logSink>>

NodeHealthSend(r) ==
  /\ svc = "node"
  /\ req[r].pc = "nh_send"
  /\ req' = [req EXCEPT ![r] =
               [ResStatusJson(req[r], req[r].respStatus, req[r].response)
                  EXCEPT !.pc = "done"]]
  /\ UNCHANGED <<svc, proc, clock, rng, logSink>>

\* ---- error-handling middleware, app.js 109-117
NodeErrorLog(r) ==
  /\ svc = "node"
  /\ req[r].pc = "n_errlog"
  /\ logSink' = Append(logSink, [req |-> r, level |-> "error",
                                 msg |-> "Unhandled error occurred",
                                 fields |-> <<>>])
  /\ req' = [req EXCEPT ![r].pc = "n_errsend"]
  /\ UNCHANGED <<svc, proc, clock, rng>>

NodeInternalErrorResponse(ts) ==
  [error |-> "INTERNAL_ERROR", message |-> "An internal error occurred",
   timestamp |-> ts]

NodeErrorSend(r) ==
  /\ svc = "node"
  /\ req[r].pc = "n_errsend"
  /\ LET q == [req[r] EXCEPT !.timestamp = clock,
                             !.response = NodeInternalErrorResponse(clock),
                             !.respStatus = StatusInternalServerError]
     IN req' = [req EXCEPT ![r] =
                  [ResStatusJson(q, q.respStatus, q.response) EXCEPT !.pc = "done"]]
  /\ UNCHANGED <<svc, proc, clock, rng, logSink>>

\* ================================================================ the system
Next ==
  \/ Tick
  \/ \E r \in Reqs, m \in Methods, p \in Paths, b \in BOOLEAN,
        ht \in TraceHeaderValues, hp \in ParentHeaderValues :
       Arrive(r, m, p, b, ht, hp)
  \/ \E r \in Reqs : Discard(r)
  \/ \E r \in Reqs : GoRoute(r)
  \/ \E r \in Reqs : GoStart(r)
  \/ \E r \in Reqs : GoSetContentType(r)
  \/ \E r \in Reqs : GoSeed(r)
  \/ \E r \in Reqs : GoDraw(r)
  \/ \E r \in Reqs : GoTimestamp(r)
  \/ \E r \in Reqs : GoBranch(r)
  \/ \E r \in Reqs : GoLog(r)
  \/ \E r \in Reqs : GoWriteHeader(r)
  \/ \E r \in Reqs : GoEncode(r)
  \/ \E r \in Reqs : GoFinish(r)
  \/ \E r \in Reqs : GoHealthSetContentType(r)
  \/ \E r \in Reqs : GoHealthWriteHeader(r)
  \/ \E r \in Reqs : GoHealthBuild(r)
  \/ \E r \in Reqs : GoHealthEncode(r)
  \/ \E r \in Reqs : NodeJsonMiddleware(r)
  \/ \E r \in Reqs : NodeDatadogMiddleware(r)
  \/ \E r \in Reqs : NodeRoute(r)
  \/ \E r \in Reqs : NodeNotFound(r)
  \/ \E r \in Reqs : NodeTimestamp(r)
  \/ \E r \in Reqs : NodeSetContentType(r)
  \/ \E r \in Reqs : NodeDraw(r)
  \/ \E r \in Reqs : NodeBranch(r)
  \/ \E r \in Reqs : NodeLog(r)
  \/ \E r \in Reqs : NodeSend(r)
  \/ \E r \in Reqs : NodeHealthSetContentType(r)
  \/ \E r \in Reqs : NodeHealthBuild(r)
  \/ \E r \in Reqs : NodeHealthSend(r)
  \/ \E r \in Reqs : NodeErrorLog(r)
  \/ \E r \in Reqs : NodeErrorSend(r)

Spec == Init /\ [][Next]_vars

\* a step of the handling of the request in slot r
Step(r) ==
  \/ GoRoute(r) \/ GoStart(r) \/ GoSetContentType(r) \/ GoSeed(r)
  \/ GoDraw(r) \/ GoTimestamp(r) \/ GoBranch(r) \/ GoLog(r)
  \/ GoWriteHeader(r) \/ GoEncode(r) \/ GoFinish(r)
  \/ GoHealthSetContentType(r) \/ GoHealthWriteHeader(r)
  \/ GoHealthBuild(r) \/ GoHealthEncode(r)
  \/ NodeJsonMiddleware(r) \/ NodeDatadogMiddleware(r) \/ NodeRoute(r)
  \/ NodeNotFound(r) \/ NodeTimestamp(r) \/ NodeSetContentType(r)
  \/ NodeDraw(r) \/ NodeBranch(r) \/ NodeLog(r) \/ NodeSend(r)
  \/ NodeHealthSetContentType(r) \/ NodeHealthBuild(r) \/ NodeHealthSend(r)
  \/ NodeErrorLog(r) \/ NodeErrorSend(r)

\* the goroutine of a request (the callbacks of a request, in Node.js) keeps
\* being scheduled while it has a step to take
FairSpec == Spec /\ \A r \in Reqs : WF_vars(Step(r))

\* the Go service with logging faults: the log file may fail to open at start
\* and any write of a log line may fail
InitLogFault ==
  /\ svc = "go"
  /\ proc \in {GoServing(TRUE), GoServing(FALSE)}
  /\ clock = 0
  /\ rng \in RngStates
  /\ req = [r \in Reqs |-> IdleReq]
  /\ logSink = <<>>

NextLogFault ==
  \/ Tick
  \/ \E r \in Reqs, m \in Methods, p \in Paths, b \in BOOLEAN,
        ht \in TraceHeaderValues, hp \in ParentHeaderValues :
       Arrive(r, m, p, b, ht, hp)
  \/ \E r \in Reqs : Discard(r)
  \/ \E r \in Reqs : GoRoute(r)
  \/ \E r \in Reqs : GoStart(r)
  \/ \E r \in Reqs : GoSetContentType(r)
  \/ \E r \in Reqs : GoSeed(r)
  \/ \E r \in Reqs : GoDraw(r)
  \/ \E r \in Reqs : GoTimestamp(r)
  \/ \E r \in Reqs : GoBranch(r)
  \/ \E r \in Reqs : GoLog(r)
  \/ \E r \in Reqs : GoLogFault(r)
  \/ \E r \in Reqs : GoWriteHeader(r)
  \/ \E r \in Reqs : GoEncode(r)
  \/ \E r \in Reqs : GoFinish(r)
  \/ \E r \in Reqs : GoHealthSetContentType(r)
  \/ \E r \in Reqs : GoHealthWriteHeader(r)
  \/ \E r \in Reqs : GoHealthBuild(r)
  \/ \E r \in Reqs : GoHealthEncode(r)

SpecLogFault ==
  /\ InitLogFault /\ [][NextLogFault]_vars
  /\ \A r \in Reqs : WF_vars(Step(r) \/ GoLogFault(r))

\* ------------------------------------------------- start and stop of a process
\* os.Exit, reached through logrus's Fatal (Go) or process.exit (Node.js):
\* the process ends with the code; deferred calls do not run
OsExit(p, code) == [p EXCEPT !.phase = "exited", !.exitCode = code]

\* main.go 16, 43-50: the package-level logger and catalog are built before
\* main runs
GoPackageInit ==
  /\ svc = "go"
  /\ proc.phase = "boot"
  /\ \E fileOpens \in BOOLEAN :
       proc' = [proc EXCEPT !.phase = "main", !.logOut = NewLogger(fileOpens),
                            !.catalog = errorScenarios]
  /\ UNCHANGED <<svc, clock, rng, req, logSink>>

\* main.go 188-195: tracer.Start, defer tracer.Stop, the routes, log.Println
GoMain ==
  /\ svc = "go"
  /\ proc.phase = "main"
  /\ proc' = [proc EXCEPT !.phase = "listen", !.tracerInits = @ + 1,
                          !.tracerOptions = "default", !.deferredStop = TRUE]
  /\ logSink' = Append(logSink, [req |-> 0, level |-> "info",
                                 msg |-> "Server starting on :8080",
                                 fields |-> <<>>, out |-> proc.logOut])
  /\ UNCHANGED <<svc, clock, rng, req>>

\* main.go 196: http.ListenAndServe binds the port and serves
GoListen ==
  /\ svc = "go"
  /\ proc.phase = "listen"
  /\ proc' = [proc EXCEPT !.phase = "serving", !.started = TRUE]
  /\ UNCHANGED <<svc, clock, rng, req, logSink>>

\* main.go 196: http.ListenAndServe returns its error (the port cannot be
\* bound, or the listener fails later) and log.Fatal logs it and exits with
\* code 1; main never returns, so the deferred tracer.Stop does not run
GoFatal ==
  /\ svc = "go"
  /\ proc.phase \in {"listen", "serving"}
  /\ proc' = OsExit(proc, 1)
  /\ logSink' = Append(logSink, [req |-> 0, level |-> "fatal",
                                 msg |-> "listen error",
                                 fields |-> <<>>, out |-> proc.logOut])
  /\ UNCHANGED <<svc, clock, rng, req>>

\* the order in which Node.js evaluates the modules of the entry file: the
\* imports of a module are evaluated, depth first and once each, before its
\* body (part_000 2, 10, 11; app.js 2, 7, 8; logger.js 2)
ESMOrder == <<"dd-trace", "winston", "logger.js", "express", "app.js", "server.js">>

\* dd-trace's init: the first call configures the tracer, a later call is
\* counted and changes nothing
TracerInit(p, options) ==
  [p EXCEPT !.tracerInits = @ + 1,
            !.tracerOptions = IF @ = "none" THEN options ELSE @]

\* the body of module m: logger.js 4-8 creates the console logger, app.js 5
\* and part_000 3-8 call tracer.init, app.js 35-42 builds the catalog,
\* part_000 13-16 listens
ModuleBody(m, p) ==
  IF m = "logger.js" THEN [p EXCEPT !.logOut = "console"]
  ELSE IF m = "app.js"
    THEN [TracerInit(p, "app.js") EXCEPT !.catalog = errorScenarios]
  ELSE IF m = "server.js"
    THEN [TracerInit(p, "server.js") EXCEPT !.entryOptions = EntryOptions(p.env),
                                            !.phase = "serving",
                                            !.started = TRUE]
  ELSE p

NodeEvaluate ==
  /\ svc = "node"
  /\ proc.phase = "boot"
  /\ LET m == ESMOrder[Len(proc.loaded) + 1] IN
       proc' = ModuleBody(m, [proc EXCEPT !.loaded = Append(@, m)])
  /\ UNCHANGED <<svc, clock, rng, req, logSink>>

Signals == {"SIGTERM", "SIGINT"}

\* app.js 120-128: the handler of a signal logs a line and exits with code 0
NodeSignal(sig) ==
  /\ svc = "node"
  /\ proc.phase = "serving"
  /\ logSink' = Append(logSink, [req |-> 0, level |-> "info", msg |-> sig,
                                 fields |-> <<>>])
  /\ proc' = OsExit(proc, 0)
  /\ UNCHANGED <<svc, clock, rng, req>>

InitLife ==
  /\ svc \in {"go", "node"}
  /\ proc = BootProc
  /\ clock = 0
  /\ rng \in RngStates
  /\ req = [r \in Reqs |-> IdleReq]
  /\ logSink = <<>>

\* requests are served while the process listens
Serve == proc.phase = "serving" /\ Next

NextLife ==
  \/ GoPackageInit
  \/ GoMain
  \/ GoListen
  \/ GoFatal
  \/ NodeEvaluate
  \/ \E sig \in Signals : NodeSignal(sig)
  \/ Serve

SpecLife == InitLife /\ [][NextLife]_vars

\* the start of the Node.js process in every environment
InitEnv ==
  /\ svc = "node"
  /\ proc \in {[BootProc EXCEPT !.env = e] : e \in Envs}
  /\ clock = 0
  /\ rng = 0
  /\ req = [r \in Reqs |-> IdleReq]
  /\ logSink = <<>>

NextEnv == NodeEvaluate

SpecEnv == InitEnv /\ [][NextEnv]_vars

\* the state in which the other specifications start is the one the start of
\* the process reaches
BootReachesServing ==
  proc.phase = "serving" =>
    proc = IF svc = "go" THEN GoServing(proc.logOut = "stdout+file") ELSE NodeServing

\* the Go service under concurrent clients
InitConc == Init /\ svc = "go"

NextConc ==
  \/ Tick
  \/ \E r \in Reqs, p \in Paths : ArriveConcurrent(r, p)
  \/ \E r \in Reqs : Discard(r)
  \/ \E r \in Reqs : GoRoute(r)
  \/ \E r \in Reqs : GoStart(r)
  \/ \E r \in Reqs : GoSetContentType(r)
  \/ \E r \in Reqs : GoSeed(r)
  \/ \E r \in Reqs : GoDraw(r)
  \/ \E r \in Reqs : GoTimestamp(r)
  \/ \E r \in Reqs : GoBranch(r)
  \/ \E r \in Reqs : GoLog(r)
  \/ \E r \in Reqs : GoWriteHeader(r)
  \/ \E r \in Reqs : GoEncode(r)
  \/ \E r \in Reqs : GoFinish(r)
  \/ \E r \in Reqs : GoHealthSetContentType(r)
  \/ \E r \in Reqs : GoHealthWriteHeader(r)
  \/ \E r \in Reqs : GoHealthBuild(r)
  \/ \E r \in Reqs : GoHealthEncode(r)

SpecConc == InitConc /\ [][NextConc]_vars

TypeOK ==
  /\ svc \in {"go", "node"}
  /\ clock \in 0..MaxClock
  /\ rng \in RngStates

\* ==================================================================== claims

Responded(r) == req[r].statusWrites > 0
BodySent(r) == req[r].bodyWrites > 0
Done(r) == req[r].pc = "done"
Field(b, f) == IF f \in DOMAIN b THEN b[f] ELSE "(absent)"

ClientErrorCodes == {"INVALID_REQUEST", "VALIDATION_ERROR", "MISSING_AUTH"}
ServerErrorCodes == {"DATABASE_ERROR", "SERVICE_UNAVAILABLE", "TIMEOUT_ERROR"}

\* C1: whenever handle_root has drawn an outcome and written a status, the
\* status is 200 exactly when outcome < 0.5, 400 exactly when
\* 0.5 <= outcome < 0.8, and 500 exactly when outcome >= 0.8 (tenths: 5, 8);
\* so a draw of exactly 0.5 gives 400 and a draw of exactly 0.8 gives 500.
C1_Thresholds ==
  \A r \in Reqs :
    (req[r].handler = "root" /\ Responded(r)) =>
      /\ req[r].outcome \in 0..9
      /\ (req[r].status = 200) <=> (req[r].outcome < 5)
      /\ (req[r].status = 400) <=> (5 <= req[r].outcome /\ req[r].outcome < 8)
      /\ (req[r].status = 500) <=> (req[r].outcome >= 8)

\* a draw of exactly 0.5 has been answered with 400
C1_Witness ==
  \E r \in Reqs : /\ req[r].handler = "root" /\ Done(r)
                  /\ req[r].outcome = 5 /\ req[r].status = 400

\* C2: every response with status 400 whose body has been sent carries an
\* `error` field that is one of INVALID_REQUEST, VALIDATION_ERROR, MISSING_AUTH.
C2_ClientErrorCodes ==
  \A r \in Reqs :
    (BodySent(r) /\ req[r].status = 400) =>
      Field(req[r].body, "error") \in ClientErrorCodes

C2_Witness ==
  \E r \in Reqs : /\ Done(r) /\ req[r].status = 400
                  /\ Field(req[r].body, "error") = "VALIDATION_ERROR"

\* C3: every response with status 500 whose body has been sent, the responses
\* of the Node.js error-handling middleware included, carries an `error` field
\* that is one of DATABASE_ERROR, SERVICE_UNAVAILABLE, TIMEOUT_ERROR.
C3_ServerErrorCodes ==
  \A r \in Reqs :
    (BodySent(r) /\ req[r].status = 500) =>
      Field(req[r].body, "error") \in ServerErrorCodes

ReachesHealth(r) ==
  /\ req[r].path = "/health"
  /\ svc = "node" => (req[r].method = "GET" /\ req[r].bodyOk)

SuccessFields == {"status", "message", "timestamp"}
ErrorFields == {"error", "message", "code", "timestamp"}
IsSuccessShape(b) == DOMAIN b \in {SuccessFields, SuccessFields \cup {"request_id"}}
IsErrorShape(b) == DOMAIN b \in {ErrorFields, ErrorFields \cup {"request_id"}}

\* C5: every response sent has Content-Type application/json and a body whose
\* fields are exactly those of SuccessResponse or exactly those of
\* ErrorResponse (request_id being optional in both).
C5_ResponseShape ==
  \A r \in Reqs :
    /\ Responded(r) => req[r].sentCtype = "application/json"
    /\ BodySent(r) => (IsSuccessShape(req[r].body) \/ IsErrorShape(req[r].body))

\* C6: an invocation of handle_root writes at most one status line and one
\* body, the status is 200, 400 or 500, the body follows the status, and the
\* invocation ends having written exactly one of each; every invocation ends.
C6_OneResponse ==
  /\ [](\A r \in Reqs :
          req[r].handler = "root" =>
            /\ req[r].statusWrites <= 1 /\ req[r].bodyWrites <= 1
            /\ Responded(r) => req[r].status \in {200, 400, 500}
            /\ BodySent(r) => Responded(r)
            /\ Done(r) => (req[r].statusWrites = 1 /\ req[r].bodyWrites = 1))
  /\ \A r \in Reqs : (req[r].handler = "root") ~> Done(r)

\* handle_root has ended with a 500
C6_Witness ==
  \E r \in Reqs : /\ req[r].handler = "root" /\ Done(r)
                  /\ req[r].status = 500
                  /\ req[r].statusWrites = 1 /\ req[r].bodyWrites = 1

\* C7: no step of a request handled by the health operation changes the
\* random source, and such a request has drawn nothing and selected no
\* scenario.
C7_HealthLeavesRandomSource ==
  [][\A r \in Reqs :
       (req'[r].handler = "health" /\ req'[r] # req[r]) =>
         /\ rng' = rng
         /\ req'[r].draws = 0 /\ req'[r].outcome = -1
         /\ req'[r].pick = -1 /\ req'[r].scenario = -1]_vars

\* a health request has been answered while the source is not in the state a
\* reseed at the current clock value would leave
C7_Witness ==
  \E r \in Reqs : /\ req[r].handler = "health" /\ Done(r)
                  /\ req[r].status = 200
                  /\ rng # RngSeed(clock)

\* what a request that has taken its branch holds, as a function of its own
\* two draws
ClassOfOwnDraws(q) ==
  IF IsSuccess(q.outcome)
    THEN /\ q.draws = 1 /\ q.pick = -1 /\ q.scenario = -1
         /\ q.respStatus = 200
         /\ Field(q.response, "status") = "success"
    ELSE /\ q.draws = 2 /\ q.pick \in 0..2
         /\ q.scenario = (IF IsClientError(q.outcome) THEN q.pick ELSE 3 + q.pick)
         /\ q.respStatus = (IF IsClientError(q.outcome) THEN 400 ELSE 500)
         /\ Field(q.response, "error") = errorScenarios[q.scenario + 1].ErrorCode

\* C8: under any interleaving of the Go handlers, (a) a request that has taken
\* its branch holds exactly one class, the one of its own outcome draw, and
\* the scenario of its own second draw; (b) what a request has drawn is not
\* changed afterwards, by itself or by another request; (c) a step changes the
\* per-request values of at most one request, so that requests share only the
\* random source and the log sink.
C8_Independent ==
  [][/\ \A r \in Reqs :
          (req'[r].handler = "root" /\ req'[r].respStatus # 0) =>
            ClassOfOwnDraws(req'[r])
     /\ \A r \in Reqs :
          (req[r].outcome # -1 /\ req'[r].pc # "idle") =>
            /\ req'[r].outcome = req[r].outcome
            /\ req[r].pick # -1 => req'[r].pick = req[r].pick
            /\ req[r].respStatus # 0 => req'[r].respStatus = req[r].respStatus
     /\ \A r, q \in Reqs :
          (r # q /\ req'[r] # req[r]) => req'[q] = req[q]]_vars

\* two requests are being handled at once and have taken different branches
C8_Witness ==
  \E r, q \in Reqs :
    /\ r # q /\ InFlight(r) /\ InFlight(q)
    /\ req[r].handler = "root" /\ req[q].handler = "root"
    /\ req[r].respStatus = 200 /\ req[q].respStatus = 500

LinesHaveTraceOf(r) ==
  \A i \in 1..Len(logSink) :
    logSink[i].req = r =>
      /\ logSink[i].fields.trace_id_dec = req[r].span.traceId
      /\ logSink[i].fields.dd_trace_id = req[r].span.traceId

\* C9 (Go service): the span of handle_root has the inbound trace id and
\* descends from the inbound parent span (through the router's span) when the
\* request carries a trace context; it belongs to a new trace, whose root has
\* no parent, when the request carries none; the trace id of the request's log
\* line is the trace id of that span.
C9_TraceContinued ==
  \A r \in Reqs :
    (svc = "go" /\ req[r].handler = "root" /\ req[r].span.spanId # 0) =>
      /\ IF HasInboundContext(req[r])
           THEN /\ req[r].span.traceId = req[r].hTrace
                /\ req[r].span.parentId = req[r].rspan.spanId
                /\ req[r].rspan.traceId = req[r].hTrace
                /\ req[r].rspan.parentId = req[r].hParent
           ELSE /\ req[r].span.traceId \notin {InTrace, 0}
                /\ req[r].span.traceId = req[r].rspan.traceId
                /\ req[r].span.parentId = req[r].rspan.spanId
                /\ req[r].rspan.parentId = 0
      /\ LinesHaveTraceOf(r)

\* a request with an inbound context has been logged with the inbound trace id
C9_Witness ==
  \E r \in Reqs :
    /\ svc = "go" /\ req[r].handler = "root" /\ HasInboundContext(req[r])
    /\ \E i \in 1..Len(logSink) :
         /\ logSink[i].req = r
         /\ logSink[i].fields.trace_id_dec = InTrace

\* C10: a request handled by handle_root has never more than one log line, and
\* has exactly one when its handling is over.
C10_OneLogLine ==
  \A r \in Reqs :
    req[r].handler = "root" =>
      /\ Len(LinesOf(r)) <= 1
      /\ Done(r) => Len(LinesOf(r)) = 1

\* the fields a log line of a request to / has to carry, by the log key of
\* each; the outcome classification is the `response` or `error_type` key
RequiredLogKeys == {"method", "url", "remote_addr", "request_id", "user_agent",
                    "status_code"}
HasRequiredFields(l) ==
  /\ RequiredLogKeys \subseteq DOMAIN l.fields
  /\ ("response" \in DOMAIN l.fields \/ "error_type" \in DOMAIN l.fields)

\* C11: once handle_root has written its log line and its status, the request
\* has a log line that carries method, path, remote address, request id, user
\* agent, outcome classification and status code, the status code being the
\* status of the response.
C11_LogFields ==
  \A r \in Reqs :
    (req[r].handler = "root" /\ Responded(r)) =>
      \E i \in 1..Len(logSink) :
        /\ logSink[i].req = r
        /\ HasRequiredFields(logSink[i])
        /\ logSink[i].fields.status_code = req[r].status

\* what the Go handle_root answers after a fault-free log write, as a
\* function of the request's draws, request id and timestamp
GoStatusOfDraws(q) ==
  IF q.outcome < 5 THEN 200 ELSE errorScenarios[q.scenario + 1].StatusCode
GoBodyOfDraws(q) ==
  IF q.outcome < 5
    THEN GoSuccessResponse(q.timestamp, q.requestID)
    ELSE GoErrorResponse(errorScenarios[q.scenario + 1], q.timestamp, q.requestID)

\* C12 (Go service): when the log file could not be opened or the write of the
\* request's log line has failed, handle_root writes the status and the body
\* it writes after a successful log write, exactly once each, and every such
\* invocation reaches its end.
C12_LogFaultHarmless ==
  /\ [](\A r \in Reqs :
          (req[r].handler = "root"
             /\ (req[r].logFailed \/ proc.logOut = "stderr")) =>
            /\ Responded(r) => req[r].status = GoStatusOfDraws(req[r])
            /\ BodySent(r) => req[r].body = GoBodyOfDraws(req[r])
            /\ Done(r) => (req[r].statusWrites = 1 /\ req[r].bodyWrites = 1))
  /\ \A r \in Reqs : (req[r].handler = "root" /\ req[r].logFailed) ~> Done(r)

\* a request whose log write failed has been answered with a client error
C12_Witness ==
  \E r \in Reqs : /\ req[r].handler = "root" /\ req[r].logFailed /\ Done(r)
                  /\ req[r].status = 400 /\ LinesOf(r) = <<>>
                  /\ Field(req[r].body, "error") \in ClientErrorCodes

\* C13: in handle_root and handle_health of both services, when the first
\* part of the response (the status line) has been written the response body
\* has been constructed and serialized.
C13_BuiltBeforeWritten ==
  \A r \in Reqs :
    (req[r].handler \in {"root", "health"} /\ Responded(r)) =>
      /\ req[r].response # NoBody
      /\ req[r].serialized

\* C14: the tracer is initialized exactly once in a run, it is initialized
\* when the process starts serving, and a process that started the tracer
\* and has exited has stopped it.
C14_TracerLifecycle ==
  /\ proc.tracerInits <= 1
  /\ proc.started => proc.tracerInits = 1
  /\ (proc.phase = "exited" /\ proc.tracerInits > 0) => proc.tracerStops >= 1

\* C15: the outcomes are a function of the random source alone: the state of
\* the source changes only when a request draws from it, the new state is
\* the successor of the old one, and the value drawn (the outcome, or the
\* scenario picked) is the output of the old state.  So runs from the same
\* state of the source draw the same outcomes, whatever the clock reads.
DrawsFromSource(r) ==
  /\ req'[r].draws = req[r].draws + 1
  /\ rng' = RngNext(rng)
  /\ \/ req[r].outcome = -1 /\ req'[r].outcome = Float64Value(rng)
     \/ req[r].pick = -1 /\ req'[r].pick = IntnValue(rng, ClassSize)

C15_OutcomeFromSource ==
  [][rng' # rng => \E r \in Reqs : DrawsFromSource(r)]_vars

\* what the Node.js handler answers from the draws of q (app.js 54-91)
NodeStatusOfDraws(q) ==
  IF IsSuccess(q.outcome) THEN StatusOK ELSE Scenario(q.scenario).StatusCode
NodeBodyOfDraws(q) ==
  IF IsSuccess(q.outcome) THEN NodeSuccessResponse(q.timestamp)
  ELSE NodeErrorResponse(Scenario(q.scenario), q.timestamp)

ContractFields == {"status", "message", "error", "code"}

\* C16: for the request and the draws of any request to / that either service
\* has answered, the Go handler and the Node.js handler give the same status
\* and bodies with the same set of fields and the same values of status,
\* message, error and code.
C16_SameContract ==
  \A r \in Reqs :
    (req[r].handler = "root" /\ req[r].response # NoBody) =>
      LET go == GoBodyOfDraws(req[r])
          node == NodeBodyOfDraws(req[r])
      IN /\ GoStatusOfDraws(req[r]) = NodeStatusOfDraws(req[r])
         /\ DOMAIN go = DOMAIN node
         /\ \A f \in ContractFields : Field(go, f) = Field(node, f)

\* C18: the clock read that gives a response its timestamp happens when the
\* response is constructed: in handle_root after the outcome has been drawn,
\* in the other handlers in the step that builds the response.
C18_TimestampAtConstruction ==
  \A r \in Reqs :
    req[r].timestamp # -1 =>
      IF req[r].handler = "root" THEN req[r].outcome # -1
      ELSE req[r].response # NoBody

\* C19: any two requests of the Go service that have been given a request id
\* have different request ids.
C19_RequestIdUnique ==
  \A r, q \in Reqs :
    (svc = "go" /\ r # q /\ req[r].requestID # -1 /\ req[q].requestID # -1) =>
      req[r].requestID # req[q].requestID

\* C20: handle_root has drawn once when it builds a Success response and
\* twice when it builds an error response; the second draw is in 0..2, a
\* ClientError reads catalog index 0..2 and a ServerError index 3..5, inside
\* the 6-entry catalog, and the status of the scenario read is that of the
\* outcome class (400 for ClientError, 500 for ServerError).
C20_DrawsAndIndex ==
  \A r \in Reqs :
    req[r].handler = "root" =>
      LET q == req[r] IN
      IF q.response = NoBody THEN q.draws <= 1 /\ q.pick = -1 /\ q.scenario = -1
      ELSE IF IsSuccess(q.outcome)
        THEN q.draws = 1 /\ q.pick = -1 /\ q.scenario = -1
      ELSE /\ q.draws = 2
           /\ q.pick \in 0..2
           /\ Len(errorScenarios) = 6
           /\ q.scenario + 1 \in DOMAIN errorScenarios
           /\ IsClientError(q.outcome) =>
                /\ q.scenario = q.pick
                /\ errorScenarios[q.scenario + 1].StatusCode = 400
                /\ q.respStatus = 400
           /\ IsServerError(q.outcome) =>
                /\ q.scenario = 3 + q.pick
                /\ errorScenarios[q.scenario + 1].StatusCode = 500
                /\ q.respStatus = 500

\* a ServerError that read the last entry of the catalog has been answered
C20_Witness ==
  \E r \in Reqs : /\ req[r].handler = "root" /\ Done(r)
                  /\ req[r].outcome >= 8 /\ req[r].draws = 2
                  /\ req[r].pick = 2 /\ req[r].scenario = 5
                  /\ req[r].status = 500

\* the modules the tracer instruments (app.js 1: "This line must come before
\* importing any instrumented module")
Instrumented == {"express", "winston", "logger.js", "app.js"}

\* C21: in the Node.js process no instrumented module has been evaluated
\* while the tracer was not initialized, and the tracer.init that took effect
\* is the one of the entry file, which carries service, env and version.
C21_TracerInitFirst ==
  svc = "node" =>
    /\ (\E i \in 1..Len(proc.loaded) : proc.loaded[i] \in Instrumented) =>
         proc.tracerInits >= 1
    /\ proc.tracerOptions \in {"none", "server.js"}

\* C22: when the Node.js process has exited on a signal, the signal has been
\* logged, the exit code is 0, and every request the process had accepted has
\* received its complete response.
C22_GracefulShutdown ==
  (svc = "node" /\ proc.phase = "exited") =>
    /\ proc.exitCode = 0
    /\ \E i \in 1..Len(logSink) : logSink[i].req = 0 /\ logSink[i].msg \in Signals
    /\ \A r \in Reqs : req[r].pc # "idle" => (Done(r) /\ Responded(r) /\ BodySent(r))

\* C23 (Go service): once the status of a request to / has been written, the
\* status_code of the request's log line is that status, the
\* http.status_code tag of the span is its decimal form, and the span carries
\* error = true, the error.type of the class and the error code of the body
\* exactly when the status is not 200.
TagOf(span, k) == IF k \in DOMAIN span.tags THEN span.tags[k] ELSE "(absent)"

C23_StatusConsistent ==
  \A r \in Reqs :
    (svc = "go" /\ req[r].handler = "root" /\ Responded(r)) =>
      LET q == req[r] IN
      /\ Len(LinesOf(r)) >= 1
      /\ \A i \in 1..Len(LinesOf(r)) : LinesOf(r)[i].fields.status_code = q.status
      /\ TagOf(q.span, "http.status_code") = Itoa(q.status)
      /\ IF q.status = 200
           THEN {"error", "error.type", "error.code"} \cap DOMAIN q.span.tags = {}
           ELSE /\ TagOf(q.span, "error") = TRUE
                /\ TagOf(q.span, "error.type") =
                     (IF q.status = 400 THEN "client_error" ELSE "server_error")
                /\ TagOf(q.span, "error.code") = q.response.error

\* a client error has been answered, logged and tagged
C23_Witness ==
  \E r \in Reqs :
    /\ svc = "go" /\ req[r].handler = "root" /\ Done(r)
    /\ req[r].status = 400
    /\ TagOf(req[r].span, "http.status_code") = "400"
    /\ TagOf(req[r].span, "error.type") = "client_error"
    /\ Len(LinesOf(r)) = 1

\* C24 (Go service): the request.id tag of the span, the request_id of every
\* log line of the request and the request_id of the response body are the
\* one request id of the request, also while another request is handled.
C24_OneRequestId ==
  \A r \in Reqs :
    (svc = "go" /\ req[r].handler = "root" /\ req[r].requestID # -1) =>
      LET q == req[r] IN
      /\ TagOf(q.span, "request.id") = q.requestID
      /\ \A i \in 1..Len(LinesOf(r)) : LinesOf(r)[i].fields.request_id = q.requestID
      /\ q.response # NoBody => q.response.request_id = q.requestID
      /\ BodySent(r) => q.body.request_id = q.requestID

\* a body has been sent while a request with another id is being handled,
\* after the clock has advanced since the id was made
C24_Witness ==
  \E r, q \in Reqs :
    /\ r # q /\ req[r].handler = "root" /\ req[q].handler = "root"
    /\ BodySent(r) /\ InFlight(q)
    /\ req[q].requestID # -1 /\ req[q].requestID # req[r].requestID
    /\ req[r].timestamp # req[r].requestID
    /\ Len(LinesOf(r)) = 1

\* the body b, sent with status st, is entry e of the catalog
IsEntry(st, b, e) ==
  /\ st = e.StatusCode
  /\ Field(b, "error") = e.ErrorCode
  /\ Field(b, "message") = e.Message
  /\ Field(b, "code") = e.Reason

InOrder(r) ==
  LET q == req[r] IN
  /\ q.ctype # "" => q.span.spanId # 0
  /\ q.outcome # -1 => q.ctype = "application/json"
  /\ Len(LinesOf(r)) > 0 => q.outcome # -1
  /\ Responded(r) => Len(LinesOf(r)) = 1
  /\ BodySent(r) => (Responded(r) /\ q.sentCtype = "application/json")
  /\ q.span.finished => BodySent(r)

HeaderKeptAfterStatus(r) ==
  (Responded(r) /\ req'[r].handler = "root") => req'[r].ctype = req[r].ctype

C26_StepOrder ==
  /\ [](\A r \in Reqs : (svc = "go" /\ req[r].handler = "root") => InOrder(r))
  /\ [][\A r \in Reqs : (svc = "go" /\ req[r].handler = "root") =>
                          HeaderKeptAfterStatus(r)]_vars

\* a request to / has gone through all the steps
C26_Witness ==
  \E r \in Reqs :
    /\ svc = "go" /\ req[r].handler = "root" /\ Done(r)
    /\ req[r].span.finished /\ BodySent(r) /\ Responded(r)
    /\ Len(LinesOf(r)) = 1 /\ req[r].sentCtype = "application/json"

\* C27 (Node.js service): the step of the Datadog-header middleware appends
\* one 'Incoming Datadog headers' line exactly when the request carries a
\* trace-id or a parent-id header, the line has the headers that are present
\* and no other, and the step changes nothing of the request but its place
\* in the chain (no status, no body, the next handler is reached).
PresentHeaders(q) ==
  {k \in {"X_Datadog_Trace_Id", "X_Datadog_Parent_Id"} :
     IF k = "X_Datadog_Trace_Id" THEN q.hTrace # 0 ELSE q.hParent # 0}

HeaderLine(r, l) ==
  /\ l.req = r /\ l.level = "info" /\ l.msg = "Incoming Datadog headers"
  /\ DOMAIN l.fields = PresentHeaders(req[r])
  /\ "X_Datadog_Trace_Id" \in DOMAIN l.fields =>
       l.fields.X_Datadog_Trace_Id = req[r].hTrace
  /\ "X_Datadog_Parent_Id" \in DOMAIN l.fields =>
       l.fields.X_Datadog_Parent_Id = req[r].hParent

C27_HeaderMiddleware ==
  [][\A r \in Reqs :
       (svc = "node" /\ req[r].pc = "n_ddmw" /\ req'[r].pc # "n_ddmw") =>
         /\ IF PresentHeaders(req[r]) # {}
              THEN /\ Len(logSink') = Len(logSink) + 1
                   /\ SubSeq(logSink', 1, Len(logSink)) = logSink
                   /\ HeaderLine(r, logSink'[Len(logSink')])
              ELSE logSink' = logSink
         /\ req'[r] = [req[r] EXCEPT !.pc = "n_route"]]_vars

\* a request with the parent-id header alone has passed the middleware
C27_Witness ==
  \E r \in Reqs :
    /\ svc = "node" /\ req[r].pc = "n_route"
    /\ req[r].hTrace = 0 /\ req[r].hParent = InParent
    /\ Len(LinesOf(r)) = 1
    /\ DOMAIN LinesOf(r)[1].fields = {"X_Datadog_Parent_Id"}
    /\ ~Responded(r)

\* C28: the line handle_root logs is at info level exactly when the status of
\* the response is 200 and at error level exactly when it is 400 or 500, with
\* message 'Client error occurred' for 400 and 'Server error occurred' for
\* 500; the status written is the status the line was logged for.
LevelMatches(l, st) ==
  /\ l.level = "info" <=> st = 200
  /\ l.level = "error" <=> st \in {400, 500}
  /\ st = 400 => l.msg = "Client error occurred"
  /\ st = 500 => l.msg = "Server error occurred"

Defaults == [DD_SERVICE |-> "nodejs-api", DD_ENV |-> "dev", DD_VERSION |-> "0.1.0"]
Passed(o) == [DD_SERVICE |-> o.service, DD_ENV |-> o.env, DD_VERSION |-> o.version]

\* C29 as stated: the entry file passes the value of each variable that is
\* set, and the default only for a variable that is not set.
C29_EnvPassThrough ==
  proc.entryOptions # NoOptions =>
    \A x \in DOMAIN Defaults :
      Passed(proc.entryOptions)[x] =
        IF proc.env[x].set THEN proc.env[x].value ELSE Defaults[x]

\* C29 amended: the entry file passes the value of each variable that is set
\* to a non-empty string, and the default for a variable that is not set or
\* is set to the empty string.
C29_EnvPassThroughNonEmpty ==
  proc.entryOptions # NoOptions =>
    \A x \in DOMAIN Defaults :
      /\ (proc.env[x].set /\ proc.env[x].value # "") =>
           Passed(proc.entryOptions)[x] = proc.env[x].value
      /\ (~proc.env[x].set \/ proc.env[x].value = "") =>
           Passed(proc.entryOptions)[x] = Defaults[x]

\* the entry file has run with DD_SERVICE empty, DD_ENV "0" and DD_VERSION unset
C29_Witness ==
  /\ svc = "node" /\ proc.phase = "serving"
  /\ proc.env.DD_SERVICE = SetTo("") /\ proc.entryOptions.service = "nodejs-api"
  /\ proc.env.DD_ENV = SetTo("0") /\ proc.entryOptions.env = "0"
  /\ proc.env.DD_VERSION = Unset /\ proc.entryOptions.version = "0.1.0"

====
